---- MODULE Spec2Model ----
(***************************************************************************)
(* PIPOU-STORE admin server: article records kept in a flat JSON file, a   *)
(* one-document background setting, uploaded background images and a       *)
(* per-client session flag.                                                *)
(*                                                                         *)
(* The repository holds several generations of the same server, modelled  *)
(* over the same state:                                                    *)
(*   Spec        the hardened server (src/unnamed/part_000); its article   *)
(*               routes are also those of src/server.js and                *)
(*               src/unnamed/part_001;                                     *)
(*   SpecLegacy  the article routes of the first generation                *)
(*               (src/uploads/PIPOU/server.js);                            *)
(*   SpecStatic  src/server.js, whose data files lie in the directory      *)
(*               served by express.static;                                 *)
(*   SpecSetting the session and setting routes of src/unnamed/part_000,   *)
(*               started on any setting file;                              *)
(*   SpecData    the callback generation (src/data/server.js);             *)
(*   SpecSession src/unnamed/part_000 with the expiry of sessions;         *)
(*   SpecOrder   src/unnamed/part_000 on an articles file of three         *)
(*               records.                                                  *)
(*                                                                         *)
(* A request handler is cut at its awaits / callbacks: Arrive (middleware  *)
(* chain and the synchronous prefix of the handler), Read (readFile        *)
(* completes, the continuation runs up to the next await) and Write        *)
(* (writeFile completes, the response is sent).  Handlers of different     *)
(* requests interleave at these points.                                    *)
(***************************************************************************)
EXTENDS Integers, Sequences, FiniteSets, TLC

VARIABLES clock, sessions, articlesFile, fondFile, blobs, reqs,
          issued, acked, last, file0, up

vars == <<clock, sessions, articlesFile, fondFile, blobs, reqs,
          issued, acked, last, file0, up>>

(* ------------------------------ bounds --------------------------------- *)
MaxOps == 3        \* requests served in one behaviour
MaxInFlight == 2   \* requests whose handlers may be suspended at once
MaxClock == 2      \* values Date.now() takes (milliseconds 1..MaxClock)

\* Date.now() at a moment when the last value it returned was t: time does
\* not run backwards
Now(t) == t..MaxClock

(* ----------------------------- input sets ------------------------------ *)
Sessions == {"s1", "s2"}
Slots == 1..MaxInFlight

ADMIN_PASSWORD == "pipou123"
Passwords == {"", ADMIN_PASSWORD, "wrong"}   \* "" is the missing password

\* request bodies: a full one, one without description that carries an id of
\* the client's choosing, and one the validators refuse
Tee == [nom |-> "Tee", prix |-> 10, categorie |-> "Shirts", description |-> "soft"]
Cap == [nom |-> "Cap", prix |-> 5, categorie |-> "Hats", id |-> 7]
Bad == [nom |-> "", prix |-> 0, categorie |-> "Shirts"]
Bodies == {Tee, Cap, Bad}

\* :id of PUT/DELETE: the id of the stored record or of the first record
\* created (in SpecLegacy: a 0-based index)
IdParams == {0, 1}

\* setting documents: background is a CSS colour, or url(/fonds/<filename>)
FondDocs == {[background |-> [color |-> "#fff"]],
             [background |-> [color |-> "#000"], theme |-> "dark"]}
DefaultFond == [background |-> [color |-> "#f2f2f2"]]

NoFile == [present |-> FALSE, mimetype |-> "", big |-> FALSE]
UploadFiles == {NoFile,
                [present |-> TRUE, mimetype |-> "image/png", big |-> FALSE],
                [present |-> TRUE, mimetype |-> "image/png", big |-> TRUE],
                [present |-> TRUE, mimetype |-> "text/plain", big |-> FALSE]}

(* ------------------------------- files --------------------------------- *)
\* A file is absent, zero-length, not JSON, or the JSON text of a value.
AbsentFile == [kind |-> "absent", recs |-> <<>>]
EmptyFile == [kind |-> "empty", recs |-> <<>>]
CorruptFile == [kind |-> "corrupt", recs |-> <<>>]
ValidFile(recs) == [kind |-> "valid", recs |-> recs]

\* a record created before the server started
OldRecord == [nom |-> "Old", prix |-> 3, categorie |-> "Hats", description |-> "worn", id |-> 0]

\* records created before the server started, around OldRecord in the file
\* of SpecOrder
FirstRecord == [nom |-> "First", prix |-> 1, categorie |-> "Hats", id |-> 8]
ThirdRecord == [nom |-> "Third", prix |-> 2, categorie |-> "Shirts", id |-> 9]

\* JSON.parse(await fs.readFile(FILE, 'utf-8')): throws unless the file holds JSON
ReadParse(file) == [ok |-> file.kind = "valid", recs |-> file.recs]

\* JSON.parse(data || '[]') after a successful readFile
ReadParseOrEmpty(file) ==
  [ok |-> file.kind \in {"valid", "empty"}, recs |-> file.recs]

(* ------------------------------ records -------------------------------- *)
\* a.id; -1 stands for undefined
RecId(a) == IF "id" \in DOMAIN a THEN a.id ELSE -1

\* { ...req.body, id }  and  nouvelArticle.id = Date.now()
WithId(body, id) ==
  [f \in (DOMAIN body) \cup {"id"} |-> IF f = "id" THEN id ELSE body[f]]

\* the express-validator chain of POST/PUT /articles
Validate(body) ==
  /\ body.nom # ""
  /\ body.prix > 0
  /\ body.categorie # ""

\* findIndex whose -1 is taken for the last position
FindIndex_MinusOneIsLast(recs, id) ==
  IF \E i \in 1..Len(recs) : RecId(recs[i]) = id
  THEN CHOOSE i \in 1..Len(recs) : RecId(recs[i]) = id
  ELSE Len(recs)

\* articles.findIndex(a => a.id === id), 1-based, 0 for -1
FindIndex(recs, id) ==
  IF \E i \in 1..Len(recs) : RecId(recs[i]) = id
  THEN CHOOSE i \in 1..Len(recs) :
         /\ RecId(recs[i]) = id
         /\ \A j \in 1..(i - 1) : RecId(recs[j]) # id
  ELSE 0

\* a filter that hands the remaining records back in reverse order
Filter_Reversed(recs, id) ==
  LET kept == SelectSeq(recs, LAMBDA a : RecId(a) # id)
  IN [i \in 1..Len(kept) |-> kept[Len(kept) + 1 - i]]

\* a filter with the test inverted: keeps the records it should remove
Filter_Inverted(recs, id) == SelectSeq(recs, LAMBDA a : RecId(a) = id)

RECURSIVE Filter(_, _)
\* articles.filter(a => a.id !== id)
Filter(recs, id) ==
  IF recs = <<>> THEN <<>>
  ELSE IF RecId(Head(recs)) # id
       THEN <<Head(recs)>> \o Filter(Tail(recs), id)
       ELSE Filter(Tail(recs), id)

\* articles.splice(index, 1) with a 0-based index inside the bounds
Splice(recs, index) ==
  SubSeq(recs, 1, index) \o SubSeq(recs, index + 2, Len(recs))

\* unshift instead of push
Push_Unshift(recs, rec) == <<rec>> \o recs

\* articles.push(nouvelArticle)
Push(recs, rec) == Append(recs, rec)

\* articles[index] = { ...req.body, id }   (index 1-based here)
Replace(recs, index, body, id) == [recs EXCEPT ![index] = WithId(body, id)]

\* articles[index] = req.body   (uploads_PIPOU, index 0-based)
ReplaceAt(recs, index, body) == [recs EXCEPT ![index + 1] = body]

(* ------------------------------ sessions ------------------------------- *)
\* a gate that lets every request with a session object through
requireLogin_AnySession(s) == s \in Sessions

\* a gate that looks at one flag shared by all clients
requireLogin_SharedFlag(s) == \E t \in Sessions : sessions[t]

\* requireLogin: next() when req.session.authenticated
requireLogin(s) == sessions[s]

(* ------------------------------ requests ------------------------------- *)
NoBody == [none |-> TRUE]
Idle == [pc |-> "idle", op |-> "none", id |-> 0, body |-> NoBody, seen |-> <<>>]

\* a handler suspended at an await, with the locals it resumes with
Pending(pc, op, id, body) ==
  [pc |-> pc, op |-> op, id |-> id, body |-> body, seen |-> <<>>]

\* the response a client receives: the route and the :id of the request it
\* answers, the status, and the records or documents of its body
Resp(op, id, status, out) == [op |-> op, id |-> id, status |-> status, out |-> out]

NoResp == Resp("none", 0, 0, <<>>)

\* the server takes one more request (MaxOps in all)
Accepts == up /\ issued < MaxOps

\* a request that suspends is held by the lowest free handler slot
FreeSlot(r) ==
  /\ Accepts
  /\ reqs[r].pc = "idle"
  /\ \A q \in Slots : q < r => reqs[q].pc # "idle"

At(r, pc, op) == up /\ reqs[r].pc = pc /\ reqs[r].op = op

\* an acknowledged mutation of the article file
Mutation(op, id, body) == [op |-> op, id |-> id, body |-> body]

(* ------------------------------- Init ---------------------------------- *)
Init ==
  /\ clock = 1
  /\ sessions = [s \in Sessions |-> FALSE]
  /\ articlesFile \in {AbsentFile, EmptyFile, CorruptFile, ValidFile(<<>>),
                       ValidFile(<<OldRecord>>)}
  /\ fondFile = AbsentFile
  /\ blobs = 0
  /\ reqs = [r \in Slots |-> Idle]
  /\ issued = 0
  /\ acked = <<>>
  /\ last = NoResp
  /\ file0 = articlesFile
  /\ up = TRUE

(* --------------------------- session routes ---------------------------- *)
\* a login that accepts every password that is present
Login_AnyPassword(s, pw) ==
  /\ Accepts
  /\ issued' = issued + 1
  /\ IF pw = ""
     THEN /\ last' = Resp("login", 0, 400, <<>>)
          /\ UNCHANGED sessions
     ELSE /\ sessions' = [sessions EXCEPT ![s] = TRUE]
          /\ last' = Resp("login", 0, 200, <<>>)
  /\ UNCHANGED <<clock, articlesFile, fondFile, blobs, reqs, acked, file0, up>>

\* a login whose rejection also takes the flag away
Login_RejectionClears(s, pw) ==
  /\ Accepts
  /\ issued' = issued + 1
  /\ IF pw = ""
     THEN /\ last' = Resp("login", 0, 400, <<>>)
          /\ sessions' = [sessions EXCEPT ![s] = FALSE]
     ELSE IF pw = ADMIN_PASSWORD
          THEN /\ sessions' = [sessions EXCEPT ![s] = TRUE]
               /\ last' = Resp("login", 0, 200, <<>>)
          ELSE /\ last' = Resp("login", 0, 401, <<>>)
               /\ sessions' = [sessions EXCEPT ![s] = FALSE]
  /\ UNCHANGED <<clock, articlesFile, fondFile, blobs, reqs, acked, file0, up>>

\* POST /login, for a request the rate limiter in front of it lets through
Login(s, pw) ==
  /\ Accepts
  /\ issued' = issued + 1
  /\ IF pw = ""
     THEN /\ last' = Resp("login", 0, 400, <<>>)
          /\ UNCHANGED sessions
     ELSE IF pw = ADMIN_PASSWORD
          THEN /\ sessions' = [sessions EXCEPT ![s] = TRUE]
               /\ last' = Resp("login", 0, 200, <<>>)
          ELSE /\ last' = Resp("login", 0, 401, <<>>)
               /\ UNCHANGED sessions
  /\ UNCHANGED <<clock, articlesFile, fondFile, blobs, reqs, acked, file0, up>>

\* a logout that answers without destroying the session
Logout_KeepsFlag(s) ==
  /\ Accepts
  /\ issued' = issued + 1
  /\ last' = Resp("logout", 0, 302, <<>>)
  /\ UNCHANGED <<clock, sessions, articlesFile, fondFile, blobs, reqs, acked,
                 file0, up>>

\* POST /logout: req.session.destroy, then the redirect to the login view
Logout(s) ==
  /\ Accepts
  /\ issued' = issued + 1
  /\ sessions' = [sessions EXCEPT ![s] = FALSE]
  /\ last' = Resp("logout", 0, 302, <<>>)
  /\ UNCHANGED <<clock, articlesFile, fondFile, blobs, reqs, acked, file0, up>>

\* a check-session that answers 200 to every caller
CheckSession_Always200(s) ==
  /\ Accepts
  /\ issued' = issued + 1
  /\ last' = Resp("check-session", 0, 200, <<>>)
  /\ UNCHANGED <<clock, sessions, articlesFile, fondFile, blobs, reqs, acked,
                 file0, up>>

\* GET /check-session: no gate in front of it
CheckSession(s) ==
  /\ Accepts
  /\ issued' = issued + 1
  /\ last' = Resp("check-session", 0, IF sessions[s] THEN 200 ELSE 401, <<>>)
  /\ UNCHANGED <<clock, sessions, articlesFile, fondFile, blobs, reqs, acked,
                 file0, up>>

\* the session of s outlives its maxAge (2 hours): the store drops it and the
\* next request of the client starts a session without the flag.  Only an
\* authenticated session is stored (saveUninitialized: false)
Expire(s) ==
  /\ up
  /\ sessions[s]
  /\ sessions' = [sessions EXCEPT ![s] = FALSE]
  /\ UNCHANGED <<clock, articlesFile, fondFile, blobs, reqs, issued, acked,
                 last, file0, up>>

(* --------------------------- POST /articles ---------------------------- *)
ArriveCreate(r, s, b, now) ==
  /\ FreeSlot(r)
  /\ issued' = issued + 1
  /\ IF ~requireLogin(s)
     THEN /\ last' = Resp("create", 0, 401, <<>>)
          /\ UNCHANGED <<reqs, clock>>
     ELSE IF ~Validate(b)
          THEN /\ last' = Resp("create", 0, 400, <<>>)
               /\ UNCHANGED <<reqs, clock>>
          ELSE \* nouvelArticle.id = Date.now(), then await readFile
               /\ clock' = now
               /\ reqs' = [reqs EXCEPT ![r] =
                             Pending("read", "create", now, WithId(b, now))]
               /\ UNCHANGED last
  /\ UNCHANGED <<sessions, articlesFile, fondFile, blobs, acked, file0, up>>

\* readFile settles; a failed read or parse leaves articles = []
ReadCreate(r) ==
  /\ At(r, "read", "create")
  /\ LET rp == ReadParse(articlesFile)
     IN reqs' = [reqs EXCEPT ![r].pc = "write",
                             ![r].seen = IF rp.ok THEN rp.recs ELSE <<>>]
  /\ UNCHANGED <<clock, sessions, articlesFile, fondFile, blobs,
                 issued, acked, last, file0, up>>

\* articles.push(nouvelArticle); writeFile settles; 201 with a message only
WriteCreate(r) ==
  /\ At(r, "write", "create")
  /\ articlesFile' = ValidFile(Push(reqs[r].seen, reqs[r].body))
  /\ last' = Resp("create", 0, 201, <<>>)
  /\ acked' = Append(acked, Mutation("create", reqs[r].id, reqs[r].body))
  /\ reqs' = [reqs EXCEPT ![r] = Idle]
  /\ UNCHANGED <<clock, sessions, fondFile, blobs, issued, file0, up>>

(* -------------------------- PUT /articles/:id -------------------------- *)
ArriveUpdate(r, s, id, b) ==
  /\ FreeSlot(r)
  /\ issued' = issued + 1
  /\ IF ~requireLogin(s)
     THEN /\ last' = Resp("update", id, 401, <<>>)
          /\ UNCHANGED reqs
     ELSE IF ~Validate(b)
          THEN /\ last' = Resp("update", id, 400, <<>>)
               /\ UNCHANGED reqs
          ELSE /\ reqs' = [reqs EXCEPT ![r] = Pending("read", "update", id, b)]
               /\ UNCHANGED last
  /\ UNCHANGED <<clock, sessions, articlesFile, fondFile, blobs, acked, file0, up>>

\* readFile settles: 500 on a failed read or parse, 404 when findIndex is -1
ReadUpdate(r) ==
  /\ At(r, "read", "update")
  /\ LET rp == ReadParse(articlesFile)
         q == reqs[r]
     IN IF ~rp.ok
        THEN /\ last' = Resp("update", q.id, 500, <<>>)
             /\ reqs' = [reqs EXCEPT ![r] = Idle]
        ELSE IF FindIndex(rp.recs, q.id) = 0
             THEN /\ last' = Resp("update", q.id, 404, <<>>)
                  /\ reqs' = [reqs EXCEPT ![r] = Idle]
             ELSE /\ reqs' = [reqs EXCEPT ![r].pc = "write", ![r].seen = rp.recs]
                  /\ UNCHANGED last
  /\ UNCHANGED <<clock, sessions, articlesFile, fondFile, blobs,
                 issued, acked, file0, up>>

\* articles[index] = { ...req.body, id }; writeFile settles; 200
WriteUpdate(r) ==
  /\ At(r, "write", "update")
  /\ LET q == reqs[r]
     IN /\ articlesFile' =
             ValidFile(Replace(q.seen, FindIndex(q.seen, q.id), q.body, q.id))
        /\ last' = Resp("update", q.id, 200, <<>>)
        /\ acked' = Append(acked, Mutation("update", q.id, q.body))
  /\ reqs' = [reqs EXCEPT ![r] = Idle]
  /\ UNCHANGED <<clock, sessions, fondFile, blobs, issued, file0, up>>

(* ------------------------- DELETE /articles/:id ------------------------ *)
ArriveDelete(r, s, id) ==
  /\ FreeSlot(r)
  /\ issued' = issued + 1
  /\ IF ~requireLogin(s)
     THEN /\ last' = Resp("delete", id, 401, <<>>)
          /\ UNCHANGED reqs
     ELSE /\ reqs' = [reqs EXCEPT ![r] = Pending("read", "delete", id, NoBody)]
          /\ UNCHANGED last
  /\ UNCHANGED <<clock, sessions, articlesFile, fondFile, blobs, acked, file0, up>>

\* readFile settles: 500 on a failed read or parse, 404 when the filter
\* removed nothing
ReadDelete(r) ==
  /\ At(r, "read", "delete")
  /\ LET rp == ReadParse(articlesFile)
         q == reqs[r]
     IN IF ~rp.ok
        THEN /\ last' = Resp("delete", q.id, 500, <<>>)
             /\ reqs' = [reqs EXCEPT ![r] = Idle]
        ELSE IF Len(Filter(rp.recs, q.id)) = Len(rp.recs)
             THEN /\ last' = Resp("delete", q.id, 404, <<>>)
                  /\ reqs' = [reqs EXCEPT ![r] = Idle]
             ELSE /\ reqs' = [reqs EXCEPT ![r].pc = "write", ![r].seen = rp.recs]
                  /\ UNCHANGED last
  /\ UNCHANGED <<clock, sessions, articlesFile, fondFile, blobs,
                 issued, acked, file0, up>>

\* writeFile(newArticles) settles; 200
WriteDelete(r) ==
  /\ At(r, "write", "delete")
  /\ LET q == reqs[r]
     IN /\ articlesFile' = ValidFile(Filter(q.seen, q.id))
        /\ last' = Resp("delete", q.id, 200, <<>>)
        /\ acked' = Append(acked, Mutation("delete", q.id, NoBody))
  /\ reqs' = [reqs EXCEPT ![r] = Idle]
  /\ UNCHANGED <<clock, sessions, fondFile, blobs, issued, file0, up>>

(* -------------------------- GET /articles.json ------------------------- *)
ArriveList(r, s) ==
  /\ FreeSlot(r)
  /\ issued' = issued + 1
  /\ IF ~requireLogin(s)
     THEN /\ last' = Resp("list", 0, 401, <<>>)
          /\ UNCHANGED reqs
     ELSE /\ reqs' = [reqs EXCEPT ![r] = Pending("read", "list", 0, NoBody)]
          /\ UNCHANGED last
  /\ UNCHANGED <<clock, sessions, articlesFile, fondFile, blobs, acked, file0, up>>

\* what GET /articles.json answers for a file: status and body
ListOf(file) ==
  IF file.kind # "absent" /\ ReadParseOrEmpty(file).ok
  THEN [status |-> 200, out |-> ReadParseOrEmpty(file).recs]
  ELSE [status |-> 500, out |-> <<>>]

ReadList(r) ==
  /\ At(r, "read", "list")
  /\ last' = Resp("list", 0, ListOf(articlesFile).status, ListOf(articlesFile).out)
  /\ reqs' = [reqs EXCEPT ![r] = Idle]
  /\ UNCHANGED <<clock, sessions, articlesFile, fondFile, blobs,
                 issued, acked, file0, up>>

(* ------------------------------ GET /fond ------------------------------ *)
ArriveGetFond(r, s) ==
  /\ FreeSlot(r)
  /\ issued' = issued + 1
  /\ IF ~requireLogin(s)
     THEN /\ last' = Resp("get-fond", 0, 401, <<>>)
          /\ UNCHANGED reqs
     ELSE /\ reqs' = [reqs EXCEPT ![r] = Pending("read", "get-fond", 0, NoBody)]
          /\ UNCHANGED last
  /\ UNCHANGED <<clock, sessions, articlesFile, fondFile, blobs, acked, file0, up>>

\* a read that hands out whatever it parsed, with no default
FondOf_NoDefault(file) == file.recs

\* the stored document, or the default when the read or the parse fails
FondOf(file) == IF ReadParse(file).ok THEN file.recs ELSE <<DefaultFond>>

ReadGetFond(r) ==
  /\ At(r, "read", "get-fond")
  /\ last' = Resp("get-fond", 0, 200, FondOf(fondFile))
  /\ reqs' = [reqs EXCEPT ![r] = Idle]
  /\ UNCHANGED <<clock, sessions, articlesFile, fondFile, blobs,
                 issued, acked, file0, up>>

(* ------------------------------ POST /fond ----------------------------- *)
\* writeFile(FOND_FILE, JSON.stringify(req.body)) is started on arrival
ArrivePostFond(r, s, doc) ==
  /\ FreeSlot(r)
  /\ issued' = issued + 1
  /\ IF ~requireLogin(s)
     THEN /\ last' = Resp("post-fond", 0, 401, <<>>)
          /\ UNCHANGED reqs
     ELSE /\ reqs' = [reqs EXCEPT ![r] = Pending("write", "post-fond", 0, doc)]
          /\ UNCHANGED last
  /\ UNCHANGED <<clock, sessions, articlesFile, fondFile, blobs, acked, file0, up>>

\* a write that merges the request's document into the stored one: the
\* request's fields over those of the stored document
WritePostFond_Merge(r) ==
  /\ At(r, "write", "post-fond")
  /\ LET doc == reqs[r].body
         stored == IF fondFile.kind = "valid" THEN fondFile.recs[1] ELSE doc
     IN fondFile' = ValidFile(<<[f \in (DOMAIN stored) \cup (DOMAIN doc) |->
                                  IF f \in DOMAIN doc THEN doc[f] ELSE stored[f]]>>)
  /\ last' = Resp("post-fond", 0, 200, <<>>)
  /\ reqs' = [reqs EXCEPT ![r] = Idle]
  /\ UNCHANGED <<clock, sessions, articlesFile, blobs, issued, acked, file0, up>>

\* writeFile(FOND_FILE) settles; 200
WritePostFond(r) ==
  /\ At(r, "write", "post-fond")
  /\ fondFile' = ValidFile(<<reqs[r].body>>)
  /\ last' = Resp("post-fond", 0, 200, <<>>)
  /\ reqs' = [reqs EXCEPT ![r] = Idle]
  /\ UNCHANGED <<clock, sessions, articlesFile, blobs, issued, acked, file0, up>>

(* --------------------------- POST /upload-fond ------------------------- *)
\* multer's fileFilter: image/jpeg, image/png, image/gif
AllowedMime(m) == m \in {"image/jpeg", "image/png", "image/gif"}

\* { background: `url(/fonds/${req.file.filename})` }, n the generated filename
UrlDoc(n) == [background |-> [url |-> n]]

\* requireLogin, then multer (filter, size limit, blob stored under a fresh
\* name), then the handler up to its writeFile
ArriveUpload(r, s, f) ==
  /\ FreeSlot(r)
  /\ issued' = issued + 1
  /\ IF ~requireLogin(s)
     THEN /\ last' = Resp("upload", 0, 401, <<>>)
          /\ UNCHANGED <<blobs, reqs>>
     ELSE IF f.present /\ (~AllowedMime(f.mimetype) \/ f.big)
          THEN \* multer passes the error on; no blob is kept
               /\ last' = Resp("upload", 0, 500, <<>>)
               /\ UNCHANGED <<blobs, reqs>>
          ELSE IF ~f.present
               THEN /\ last' = Resp("upload", 0, 400, <<>>)
                    /\ UNCHANGED <<blobs, reqs>>
               ELSE /\ blobs' = blobs + 1
                    /\ reqs' = [reqs EXCEPT ![r] =
                                  Pending("write", "upload", 0, UrlDoc(blobs + 1))]
                    /\ UNCHANGED last
  /\ UNCHANGED <<clock, sessions, articlesFile, fondFile, acked, file0, up>>

WriteUpload(r) ==
  /\ At(r, "write", "upload")
  /\ fondFile' = ValidFile(<<reqs[r].body>>)
  /\ last' = Resp("upload", 0, 200, <<reqs[r].body>>)
  /\ reqs' = [reqs EXCEPT ![r] = Idle]
  /\ UNCHANGED <<clock, sessions, articlesFile, blobs, issued, acked, file0, up>>

(* ------------------------------- Next ---------------------------------- *)
Next ==
  \/ \E s \in Sessions, pw \in Passwords : Login(s, pw)
  \/ \E s \in Sessions : Logout(s)
  \/ \E s \in Sessions : CheckSession(s)
  \/ \E r \in Slots, s \in Sessions, b \in Bodies, now \in Now(clock) :
       ArriveCreate(r, s, b, now)
  \/ \E r \in Slots : ReadCreate(r)
  \/ \E r \in Slots : WriteCreate(r)
  \/ \E r \in Slots, s \in Sessions, id \in IdParams, b \in Bodies : ArriveUpdate(r, s, id, b)
  \/ \E r \in Slots : ReadUpdate(r)
  \/ \E r \in Slots : WriteUpdate(r)
  \/ \E r \in Slots, s \in Sessions, id \in IdParams : ArriveDelete(r, s, id)
  \/ \E r \in Slots : ReadDelete(r)
  \/ \E r \in Slots : WriteDelete(r)
  \/ \E r \in Slots, s \in Sessions : ArriveList(r, s)
  \/ \E r \in Slots : ReadList(r)
  \/ \E r \in Slots, s \in Sessions : ArriveGetFond(r, s)
  \/ \E r \in Slots : ReadGetFond(r)
  \/ \E r \in Slots, s \in Sessions, d \in FondDocs : ArrivePostFond(r, s, d)
  \/ \E r \in Slots : WritePostFond(r)
  \/ \E r \in Slots, s \in Sessions, f \in UploadFiles : ArriveUpload(r, s, f)
  \/ \E r \in Slots : WriteUpload(r)

Spec == Init /\ [][Next]_vars

TypeOK ==
  /\ clock \in 1..MaxClock
  /\ sessions \in [Sessions -> BOOLEAN]
  /\ articlesFile.kind \in {"absent", "empty", "corrupt", "valid"}
  /\ fondFile.kind \in {"absent", "empty", "corrupt", "valid"}
  /\ blobs \in 0..MaxOps
  /\ issued \in 0..MaxOps
  /\ Len(acked) <= issued
  /\ \A r \in Slots : reqs[r].pc \in {"idle", "read", "write"}

(***************************************************************************)
(* The article routes of src/uploads/PIPOU/server.js: no gate, no          *)
(* validation, no id; PUT and DELETE address a record by its 0-based       *)
(* position; PUT reads and writes synchronously.  POST continues as        *)
(* ReadCreate and WriteCreate do.                                          *)
(***************************************************************************)
LegacyArriveCreate(r, b) ==
  /\ FreeSlot(r)
  /\ issued' = issued + 1
  /\ reqs' = [reqs EXCEPT ![r] = Pending("read", "create", -1, b)]
  /\ UNCHANGED <<clock, sessions, articlesFile, fondFile, blobs, acked, last,
                 file0, up>>

\* JSON.parse(readFileSync), articles[index] = req.body, writeFileSync: one
\* step; a throw inside the handler is answered 500 by Express
LegacyUpdate(index, b) ==
  /\ Accepts
  /\ issued' = issued + 1
  /\ LET rp == ReadParse(articlesFile)
     IN IF ~rp.ok
        THEN /\ last' = Resp("update", index, 500, <<>>)
             /\ UNCHANGED <<articlesFile, acked>>
        ELSE IF index >= 0 /\ index < Len(rp.recs)
             THEN /\ articlesFile' = ValidFile(ReplaceAt(rp.recs, index, b))
                  /\ last' = Resp("update", index, 200, <<>>)
                  /\ acked' = Append(acked, Mutation("update", index, b))
             ELSE /\ last' = Resp("update", index, 404, <<>>)
                  /\ UNCHANGED <<articlesFile, acked>>
  /\ UNCHANGED <<clock, sessions, fondFile, blobs, reqs, file0, up>>

LegacyArriveDelete(r, index) ==
  /\ FreeSlot(r)
  /\ issued' = issued + 1
  /\ reqs' = [reqs EXCEPT ![r] = Pending("read", "delete", index, NoBody)]
  /\ UNCHANGED <<clock, sessions, articlesFile, fondFile, blobs, acked, last,
                 file0, up>>

\* the readFile callback: 500 on a failed read or parse, 404 when the index
\* is outside the list
LegacyReadDelete(r) ==
  /\ At(r, "read", "delete")
  /\ LET rp == ReadParse(articlesFile)
         q == reqs[r]
     IN IF ~rp.ok
        THEN /\ last' = Resp("delete", q.id, 500, <<>>)
             /\ reqs' = [reqs EXCEPT ![r] = Idle]
        ELSE IF q.id >= 0 /\ q.id < Len(rp.recs)
             THEN /\ reqs' = [reqs EXCEPT ![r].pc = "write", ![r].seen = rp.recs]
                  /\ UNCHANGED last
             ELSE /\ last' = Resp("delete", q.id, 404, <<>>)
                  /\ reqs' = [reqs EXCEPT ![r] = Idle]
  /\ UNCHANGED <<clock, sessions, articlesFile, fondFile, blobs,
                 issued, acked, file0, up>>

\* articles.splice(index, 1); the writeFile callback answers 200
LegacyWriteDelete(r) ==
  /\ At(r, "write", "delete")
  /\ LET q == reqs[r]
     IN /\ articlesFile' = ValidFile(Splice(q.seen, q.id))
        /\ last' = Resp("delete", q.id, 200, <<>>)
        /\ acked' = Append(acked, Mutation("delete", q.id, NoBody))
  /\ reqs' = [reqs EXCEPT ![r] = Idle]
  /\ UNCHANGED <<clock, sessions, fondFile, blobs, issued, file0, up>>

LegacyArriveList(r) ==
  /\ FreeSlot(r)
  /\ issued' = issued + 1
  /\ reqs' = [reqs EXCEPT ![r] = Pending("read", "list", 0, NoBody)]
  /\ UNCHANGED <<clock, sessions, articlesFile, fondFile, blobs, acked, last,
                 file0, up>>

\* the readFile callback: 500 on a failed read; JSON.parse(data || '[]') runs
\* in the callback outside any try, so a file that is not JSON ends the process
LegacyReadList(r) ==
  /\ At(r, "read", "list")
  /\ IF articlesFile.kind = "corrupt"
     THEN /\ up' = FALSE
          /\ UNCHANGED last
     ELSE /\ last' = Resp("list", 0, ListOf(articlesFile).status,
                          ListOf(articlesFile).out)
          /\ UNCHANGED up
  /\ reqs' = [reqs EXCEPT ![r] = Idle]
  /\ UNCHANGED <<clock, sessions, articlesFile, fondFile, blobs,
                 issued, acked, file0>>

NextLegacy ==
  \/ \E r \in Slots, b \in Bodies : LegacyArriveCreate(r, b)
  \/ \E r \in Slots : ReadCreate(r)
  \/ \E r \in Slots : WriteCreate(r)
  \/ \E index \in IdParams, b \in Bodies : LegacyUpdate(index, b)
  \/ \E r \in Slots, index \in IdParams : LegacyArriveDelete(r, index)
  \/ \E r \in Slots : LegacyReadDelete(r)
  \/ \E r \in Slots : LegacyWriteDelete(r)
  \/ \E r \in Slots : LegacyArriveList(r)
  \/ \E r \in Slots : LegacyReadList(r)

SpecLegacy == Init /\ [][NextLegacy]_vars

(***************************************************************************)
(* src/server.js: the routes of the hardened server, with the articles     *)
(* file and the setting file kept inside the directory express.static      *)
(* serves.  It registers no GET /articles.json route: the request is       *)
(* answered by express.static, which is mounted before every route and     *)
(* looks at no session.                                                    *)
(***************************************************************************)
\* what express.static answers for public/articles.json: the file as it is,
\* or, the file missing, next() and the 404 of a path no route matches
StaticOf(file) ==
  IF file.kind = "absent"
  THEN [status |-> 404, out |-> <<>>]
  ELSE [status |-> 200, out |-> file.recs]

\* GET /articles.json of session s reaches express.static, which starts to
\* read the file; the request carries the cookie of s, nothing reads it
StaticArriveList(r, s) ==
  /\ FreeSlot(r)
  /\ issued' = issued + 1
  /\ reqs' = [reqs EXCEPT ![r] = Pending("read", "list", 0, [cookie |-> s])]
  /\ UNCHANGED <<clock, sessions, articlesFile, fondFile, blobs, acked, last,
                 file0, up>>

StaticReadList(r) ==
  /\ At(r, "read", "list")
  /\ last' = Resp("list", 0, StaticOf(articlesFile).status,
                  StaticOf(articlesFile).out)
  /\ reqs' = [reqs EXCEPT ![r] = Idle]
  /\ UNCHANGED <<clock, sessions, articlesFile, fondFile, blobs,
                 issued, acked, file0, up>>

NextStatic ==
  \/ \E s \in Sessions, pw \in Passwords : Login(s, pw)
  \/ \E s \in Sessions : Logout(s)
  \/ \E s \in Sessions : CheckSession(s)
  \/ \E r \in Slots, s \in Sessions, b \in Bodies, now \in Now(clock) :
       ArriveCreate(r, s, b, now)
  \/ \E r \in Slots : ReadCreate(r)
  \/ \E r \in Slots : WriteCreate(r)
  \/ \E r \in Slots, s \in Sessions, id \in IdParams, b \in Bodies : ArriveUpdate(r, s, id, b)
  \/ \E r \in Slots : ReadUpdate(r)
  \/ \E r \in Slots : WriteUpdate(r)
  \/ \E r \in Slots, s \in Sessions, id \in IdParams : ArriveDelete(r, s, id)
  \/ \E r \in Slots : ReadDelete(r)
  \/ \E r \in Slots : WriteDelete(r)
  \/ \E r \in Slots, s \in Sessions : StaticArriveList(r, s)
  \/ \E r \in Slots : StaticReadList(r)
  \/ \E r \in Slots, s \in Sessions, d \in FondDocs : ArrivePostFond(r, s, d)
  \/ \E r \in Slots : WritePostFond(r)
  \/ \E r \in Slots, s \in Sessions, f \in UploadFiles : ArriveUpload(r, s, f)
  \/ \E r \in Slots : WriteUpload(r)

SpecStatic == Init /\ [][NextStatic]_vars

(***************************************************************************)
(* The setting store of src/unnamed/part_000 on its own: the session       *)
(* routes and the three setting routes, started on any setting file.  The  *)
(* article routes read and write none of fondFile and blobs.               *)
(***************************************************************************)
InitSetting ==
  /\ clock = 1
  /\ sessions = [s \in Sessions |-> FALSE]
  /\ articlesFile = AbsentFile
  /\ fondFile \in {AbsentFile, EmptyFile, CorruptFile}
                  \cup {ValidFile(<<d>>) : d \in FondDocs}
  /\ blobs = 0
  /\ reqs = [r \in Slots |-> Idle]
  /\ issued = 0
  /\ acked = <<>>
  /\ last = NoResp
  /\ file0 = articlesFile
  /\ up = TRUE

NextSetting ==
  \/ \E s \in Sessions, pw \in Passwords : Login(s, pw)
  \/ \E s \in Sessions : Logout(s)
  \/ \E s \in Sessions : CheckSession(s)
  \/ \E r \in Slots, s \in Sessions : ArriveGetFond(r, s)
  \/ \E r \in Slots : ReadGetFond(r)
  \/ \E r \in Slots, s \in Sessions, d \in FondDocs : ArrivePostFond(r, s, d)
  \/ \E r \in Slots : WritePostFond(r)
  \/ \E r \in Slots, s \in Sessions, f \in UploadFiles : ArriveUpload(r, s, f)
  \/ \E r \in Slots : WriteUpload(r)

SpecSetting == InitSetting /\ [][NextSetting]_vars

(***************************************************************************)
(* src/data/server.js: callbacks instead of awaits; requireLogin redirects *)
(* to the login view (302) instead of answering 401; no validation of the  *)
(* article body; PUT reads and writes synchronously; multer is given no    *)
(* limit and no filter, and the upload handler runs synchronously after    *)
(* it.  /login, /logout and /check-session are the handlers of the         *)
(* hardened server.  The continuations of POST and DELETE /articles, GET    *)
(* and POST /fond are ReadCreate, WriteCreate, ReadDelete, WriteDelete,     *)
(* ReadGetFond and WritePostFond.                                          *)
(***************************************************************************)
DataArriveCreate(r, s, b, now) ==
  /\ FreeSlot(r)
  /\ issued' = issued + 1
  /\ IF ~requireLogin(s)
     THEN /\ last' = Resp("create", 0, 302, <<>>)
          /\ UNCHANGED <<reqs, clock>>
     ELSE \* nouvelArticle.id = Date.now(), then readFile
          /\ clock' = now
          /\ reqs' = [reqs EXCEPT ![r] =
                        Pending("read", "create", now, WithId(b, now))]
          /\ UNCHANGED last
  /\ UNCHANGED <<sessions, articlesFile, fondFile, blobs, acked, file0, up>>

\* JSON.parse(readFileSync), findIndex, articles[index] = { ...req.body, id },
\* writeFileSync: one step; a throw inside the handler is answered 500 by
\* Express
DataUpdate(s, id, b) ==
  /\ Accepts
  /\ issued' = issued + 1
  /\ LET rp == ReadParse(articlesFile)
     IN IF ~requireLogin(s)
        THEN /\ last' = Resp("update", id, 302, <<>>)
             /\ UNCHANGED <<articlesFile, acked>>
        ELSE IF ~rp.ok
             THEN /\ last' = Resp("update", id, 500, <<>>)
                  /\ UNCHANGED <<articlesFile, acked>>
             ELSE IF FindIndex(rp.recs, id) = 0
                  THEN /\ last' = Resp("update", id, 404, <<>>)
                       /\ UNCHANGED <<articlesFile, acked>>
                  ELSE /\ articlesFile' =
                            ValidFile(Replace(rp.recs, FindIndex(rp.recs, id), b, id))
                       /\ last' = Resp("update", id, 200, <<>>)
                       /\ acked' = Append(acked, Mutation("update", id, b))
  /\ UNCHANGED <<clock, sessions, fondFile, blobs, reqs, file0, up>>

DataArriveDelete(r, s, id) ==
  /\ FreeSlot(r)
  /\ issued' = issued + 1
  /\ IF ~requireLogin(s)
     THEN /\ last' = Resp("delete", id, 302, <<>>)
          /\ UNCHANGED reqs
     ELSE /\ reqs' = [reqs EXCEPT ![r] = Pending("read", "delete", id, NoBody)]
          /\ UNCHANGED last
  /\ UNCHANGED <<clock, sessions, articlesFile, fondFile, blobs, acked, file0, up>>

DataArriveList(r, s) ==
  /\ FreeSlot(r)
  /\ issued' = issued + 1
  /\ IF ~requireLogin(s)
     THEN /\ last' = Resp("list", 0, 302, <<>>)
          /\ UNCHANGED reqs
     ELSE /\ reqs' = [reqs EXCEPT ![r] = Pending("read", "list", 0, NoBody)]
          /\ UNCHANGED last
  /\ UNCHANGED <<clock, sessions, articlesFile, fondFile, blobs, acked, file0, up>>

\* the readFile callback: 500 on a failed read; JSON.parse(data || '[]') runs
\* in the callback outside any try, so a file that is not JSON ends the process
DataReadList(r) ==
  /\ At(r, "read", "list")
  /\ IF articlesFile.kind = "corrupt"
     THEN /\ up' = FALSE
          /\ UNCHANGED last
     ELSE /\ last' = Resp("list", 0, ListOf(articlesFile).status,
                          ListOf(articlesFile).out)
          /\ UNCHANGED up
  /\ reqs' = [reqs EXCEPT ![r] = Idle]
  /\ UNCHANGED <<clock, sessions, articlesFile, fondFile, blobs,
                 issued, acked, file0>>

DataArriveGetFond(r, s) ==
  /\ FreeSlot(r)
  /\ issued' = issued + 1
  /\ IF ~requireLogin(s)
     THEN /\ last' = Resp("get-fond", 0, 302, <<>>)
          /\ UNCHANGED reqs
     ELSE /\ reqs' = [reqs EXCEPT ![r] = Pending("read", "get-fond", 0, NoBody)]
          /\ UNCHANGED last
  /\ UNCHANGED <<clock, sessions, articlesFile, fondFile, blobs, acked, file0, up>>

DataArrivePostFond(r, s, doc) ==
  /\ FreeSlot(r)
  /\ issued' = issued + 1
  /\ IF ~requireLogin(s)
     THEN /\ last' = Resp("post-fond", 0, 302, <<>>)
          /\ UNCHANGED reqs
     ELSE /\ reqs' = [reqs EXCEPT ![r] = Pending("write", "post-fond", 0, doc)]
          /\ UNCHANGED last
  /\ UNCHANGED <<clock, sessions, articlesFile, fondFile, blobs, acked, file0, up>>

\* requireLogin, then multer({ dest }): every file sent is stored under a
\* fresh name, whatever its type and size; then the handler, synchronous:
\* req.file.filename throws when no file was sent (500 by Express), else
\* writeFileSync of the url document and 200
DataUpload(s, f) ==
  /\ Accepts
  /\ issued' = issued + 1
  /\ IF ~requireLogin(s)
     THEN /\ last' = Resp("upload", 0, 302, <<>>)
          /\ UNCHANGED <<blobs, fondFile>>
     ELSE IF ~f.present
          THEN /\ last' = Resp("upload", 0, 500, <<>>)
               /\ UNCHANGED <<blobs, fondFile>>
          ELSE /\ blobs' = blobs + 1
               /\ fondFile' = ValidFile(<<UrlDoc(blobs + 1)>>)
               /\ last' = Resp("upload", 0, 200, <<UrlDoc(blobs + 1)>>)
  /\ UNCHANGED <<clock, sessions, articlesFile, reqs, acked, file0, up>>

NextData ==
  \/ \E s \in Sessions, pw \in Passwords : Login(s, pw)
  \/ \E s \in Sessions : Logout(s)
  \/ \E s \in Sessions : CheckSession(s)
  \/ \E r \in Slots, s \in Sessions, b \in Bodies, now \in Now(clock) :
       DataArriveCreate(r, s, b, now)
  \/ \E r \in Slots : ReadCreate(r)
  \/ \E r \in Slots : WriteCreate(r)
  \/ \E s \in Sessions, id \in IdParams, b \in Bodies : DataUpdate(s, id, b)
  \/ \E r \in Slots, s \in Sessions, id \in IdParams : DataArriveDelete(r, s, id)
  \/ \E r \in Slots : ReadDelete(r)
  \/ \E r \in Slots : WriteDelete(r)
  \/ \E r \in Slots, s \in Sessions : DataArriveList(r, s)
  \/ \E r \in Slots : DataReadList(r)
  \/ \E r \in Slots, s \in Sessions : DataArriveGetFond(r, s)
  \/ \E r \in Slots : ReadGetFond(r)
  \/ \E r \in Slots, s \in Sessions, d \in FondDocs : DataArrivePostFond(r, s, d)
  \/ \E r \in Slots : WritePostFond(r)
  \/ \E s \in Sessions, f \in UploadFiles : DataUpload(s, f)

SpecData == Init /\ [][NextData]_vars

(***************************************************************************)
(* src/unnamed/part_000 with the expiry of sessions: every route of Next,  *)
(* and Expire, which has the effect of a logout that uses no request.      *)
(* The articles file starts with one record.                               *)
(***************************************************************************)
InitSession ==
  /\ Init
  /\ articlesFile = ValidFile(<<OldRecord>>)

NextSession ==
  \/ Next
  \/ \E s \in Sessions : Expire(s)

SpecSession == InitSession /\ [][NextSession]_vars

(***************************************************************************)
(* src/unnamed/part_000 started on an articles file of three records, the  *)
(* one the requests can address in the middle.                             *)
(***************************************************************************)
InitOrder ==
  /\ clock = 1
  /\ sessions = [s \in Sessions |-> FALSE]
  /\ articlesFile = ValidFile(<<FirstRecord, OldRecord, ThirdRecord>>)
  /\ fondFile = AbsentFile
  /\ blobs = 0
  /\ reqs = [r \in Slots |-> Idle]
  /\ issued = 0
  /\ acked = <<>>
  /\ last = NoResp
  /\ file0 = articlesFile
  /\ up = TRUE

SpecOrder == InitOrder /\ [][Next]_vars

(***************************************************************************)
(*                              Properties                                 *)
(***************************************************************************)
Quiescent == \A r \in Slots : reqs[r].pc = "idle"

ArticleMutations == {"create", "update", "delete"}

AllCreates == \A i \in 1..Len(acked) : acked[i].op = "create"

\* no two records of the list carry the same id
DistinctIds(recs) ==
  \A i, j \in 1..Len(recs) : i # j => RecId(recs[i]) # RecId(recs[j])

\* what one mutation does to the file when it runs alone, per the handlers
ApplyOne(file, m) ==
  LET rp == ReadParse(file)
  IN CASE m.op = "create" ->
            [ok |-> TRUE,
             file |-> ValidFile(Push(IF rp.ok THEN rp.recs ELSE <<>>, m.body))]
       [] m.op = "update" ->
            IF rp.ok /\ FindIndex(rp.recs, m.id) # 0
            THEN [ok |-> TRUE,
                  file |-> ValidFile(Replace(rp.recs, FindIndex(rp.recs, m.id), m.body, m.id))]
            ELSE [ok |-> FALSE, file |-> file]
       [] OTHER ->
            IF rp.ok /\ Len(Filter(rp.recs, m.id)) # Len(rp.recs)
            THEN [ok |-> TRUE, file |-> ValidFile(Filter(rp.recs, m.id))]
            ELSE [ok |-> FALSE, file |-> file]

RECURSIVE ApplyAll(_, _)
\* the mutations of ms applied one at a time, each succeeding
ApplyAll(file, ms) ==
  IF ms = <<>> THEN [ok |-> TRUE, file |-> file]
  ELSE LET one == ApplyOne(file, Head(ms))
       IN IF one.ok THEN ApplyAll(one.file, Tail(ms)) ELSE one

\* the acknowledged mutations in the order p
Reordered(p) == [i \in 1..Len(acked) |-> acked[p[i]]]

\* C1: two simultaneous creates against an empty store both survive: once
\* both are acknowledged the article file holds exactly 2 records.
C1_BothCreatesSurvive ==
  (/\ file0 = ValidFile(<<>>)
   /\ Quiescent
   /\ Len(acked) = 2
   /\ AllCreates)
  => (articlesFile.kind = "valid" /\ Len(articlesFile.recs) = 2)

\* C2: no lost update: once every request has been answered, the file is what
\* the acknowledged mutations give when applied one at a time in some order.
C2_NoLostUpdate ==
  Quiescent =>
    \E p \in Permutations(1..Len(acked)) :
      /\ ApplyAll(file0, Reordered(p)).ok
      /\ ApplyAll(file0, Reordered(p)).file = articlesFile

\* C3: at most one request is between its read of the articles file and its
\* overwrite of it (the setting routes overwrite without reading).
C3_OneMutationInFlight ==
  Cardinality({r \in Slots : /\ reqs[r].pc = "write"
                             /\ reqs[r].op \in ArticleMutations}) <= 1

\* a mutating request of session s arrives
MutatingArrival(r, s) ==
  \/ \E b \in Bodies, now \in Now(clock) : ArriveCreate(r, s, b, now)
  \/ \E id \in IdParams, b \in Bodies : ArriveUpdate(r, s, id, b)
  \/ \E id \in IdParams : ArriveDelete(r, s, id)
  \/ \E d \in FondDocs : ArrivePostFond(r, s, d)
  \/ \E f \in UploadFiles : ArriveUpload(r, s, f)

MutatingOps == {"create", "update", "delete", "post-fond", "upload"}

\* C4: a mutating request on a session whose authenticated flag is not true
\* is answered 401 and ends there: no handler is started, and the articles
\* file, the setting file and the blob directory are left as they were.
C4_AuthGate ==
  [][\A r \in Slots, s \in Sessions :
       (~sessions[s] /\ MutatingArrival(r, s))
       => /\ last'.status = 401
          /\ last'.op \in MutatingOps
          /\ UNCHANGED <<articlesFile, fondFile, blobs, reqs, acked>>]_vars

\* C4 witness: a mutating request has been refused with 401 while no session
\* was authenticated, and nothing was written.
C4_Witness ==
  /\ last.op \in MutatingOps
  /\ last.status = 401
  /\ \A s \in Sessions : ~sessions[s]
  /\ articlesFile = file0
  /\ blobs = 0

\* C5: after N >= 1 concurrent creates have all been acknowledged, the
\* collection holds exactly N more records than before, with N distinct ids.
C5_CreatesAllDistinct ==
  (/\ file0.kind = "valid"
   /\ Quiescent
   /\ Len(acked) >= 1
   /\ AllCreates)
  => /\ articlesFile.kind = "valid"
     /\ Len(articlesFile.recs) = Len(file0.recs) + Len(acked)
     /\ \A i, j \in 1..Len(acked) : i # j => acked[i].id # acked[j].id

\* C6: starting from a file with pairwise distinct ids, no two records of the
\* article file ever carry the same id.
C6_IdsUniqueAtRest ==
  DistinctIds(file0.recs) => DistinctIds(articlesFile.recs)

\* the handler slot whose update is acknowledged in this step read the file
\* as it now is (no other write landed since)
UpdateUndisturbed ==
  \A r \in Slots :
    (reqs[r].op = "update" /\ reqs[r].pc = "write" /\ reqs'[r].pc = "idle")
    => reqs[r].seen = articlesFile.recs

\* C7: a successful update(id, b) on a store holding a record with that id
\* leaves, under id, exactly b's fields plus the original id (no other field
\* of the old record, and not an id given inside b); the number of records
\* and every other record are unchanged.
C7_UpdateIsFullReplace ==
  [][\A id \in IdParams, b \in Bodies :
       LET i == FindIndex(articlesFile.recs, id)
       IN (/\ acked' = Append(acked, Mutation("update", id, b))
           /\ UpdateUndisturbed
           /\ i # 0)
          => /\ Len(articlesFile'.recs) = Len(articlesFile.recs)
             /\ DOMAIN articlesFile'.recs[i] = (DOMAIN b) \cup {"id"}
             /\ articlesFile'.recs[i].id = id
             /\ \A f \in (DOMAIN b) \ {"id"} : articlesFile'.recs[i][f] = b[f]
             /\ \A j \in 1..Len(articlesFile.recs) :
                  j # i => articlesFile'.recs[j] = articlesFile.recs[j]]_vars

\* the handler slot whose create is acknowledged in this step read the file
\* as it now is (no other write landed since)
CreateUndisturbed(r) ==
  reqs[r].seen = (IF ReadParse(articlesFile).ok THEN articlesFile.recs ELSE <<>>)

\* C8: create(a) gives the record a's non-id fields and an integer id; once
\* it is acknowledged, list() answers with that record as its last element,
\* and, no other mutation having come in between, with the previous records
\* before it.
C8_CreateListRoundTrip ==
  [][/\ \A r \in Slots, s \in Sessions, a \in Bodies, now \in Now(clock) :
          (ArriveCreate(r, s, a, now) /\ reqs'[r].pc = "read")
          => /\ DOMAIN reqs'[r].body = (DOMAIN a) \cup {"id"}
             /\ reqs'[r].body.id \in Int
             /\ \A f \in (DOMAIN a) \ {"id"} : reqs'[r].body[f] = a[f]
     /\ \A r \in Slots :
          WriteCreate(r)
          => LET before == ListOf(articlesFile)
                 after == ListOf(articlesFile')
             IN /\ after.status = 200
                /\ after.out # <<>>
                /\ after.out[Len(after.out)] = reqs[r].body
                /\ (before.status = 200 /\ CreateUndisturbed(r))
                   => after.out = before.out \o <<reqs[r].body>>]_vars

\* C8 witness: one create has been acknowledged on a store that held a record;
\* the file lists the old record, then the new one.
C8_Witness ==
  /\ last.op = "create"
  /\ last.status = 201
  /\ file0 = ValidFile(<<OldRecord>>)
  /\ Len(acked) = 1
  /\ ListOf(articlesFile).out = <<OldRecord, acked[1].body>>

\* C9: once a delete of id has been acknowledged, id is absent from list();
\* a delete of the same id that reads the file next is answered 404 and
\* leaves the file as it is.
C9_DeleteTwice ==
  /\ [](last.op = "delete" /\ last.status = 200
        => /\ ListOf(articlesFile).status = 200
           /\ \A i \in 1..Len(articlesFile.recs) :
                RecId(articlesFile.recs[i]) # last.id)
  /\ [][\A r \in Slots :
          (ReadDelete(r) /\ last = Resp("delete", reqs[r].id, 200, <<>>))
          => /\ last' = Resp("delete", reqs[r].id, 404, <<>>)
             /\ reqs'[r] = Idle
             /\ UNCHANGED articlesFile]_vars

\* C9 witness: the first delete of an id was acknowledged, the second one of
\* the same id has just been answered 404.
C9_Witness ==
  /\ acked # <<>>
  /\ acked[Len(acked)].op = "delete"
  /\ last = Resp("delete", acked[Len(acked)].id, 404, <<>>)
  /\ Quiescent

\* C10: an update or a delete whose id matches no record of a readable, valid
\* article file is answered 404, writes nothing and ends there.
C10_UnknownId ==
  [][\A r \in Slots :
       (/\ ReadUpdate(r) \/ ReadDelete(r)
        /\ ReadParse(articlesFile).ok
        /\ \A i \in 1..Len(articlesFile.recs) :
             RecId(articlesFile.recs[i]) # reqs[r].id)
       => /\ last'.status = 404
          /\ last'.id = reqs[r].id
          /\ reqs'[r] = Idle
          /\ UNCHANGED articlesFile]_vars

\* C10 witness: an update or delete of an id the file does not hold has been
\* answered 404 and the file, which holds a record, is as it was.
C10_Witness ==
  /\ last.op \in {"update", "delete"}
  /\ last.status = 404
  /\ articlesFile = ValidFile(<<OldRecord>>)
  /\ file0 = articlesFile
  /\ last.id # 0
  /\ acked = <<>>

\* C11: a mutating request never overwrites an articles file that exists but
\* is not valid JSON: started on such a file, the file stays as it is and no
\* create, update or delete is acknowledged.
C11_CorruptStorageKept ==
  file0 = CorruptFile => (articlesFile = CorruptFile /\ acked = <<>>)

\* C12: the list of an articles file that is absent or not valid JSON is
\* answered 200 with an empty sequence.
C12_ListToleratesCorruption ==
  [][\A r \in Slots :
       (ReadList(r) /\ articlesFile.kind \in {"absent", "corrupt"})
       => last' = Resp("list", 0, 200, <<>>)]_vars

\* a GET /articles.json of session s arrives, at the route or at the static
\* middleware
ListArrival(r, s) == ArriveList(r, s) \/ StaticArriveList(r, s)

\* C13: a GET /articles.json of a session whose authenticated flag is not
\* true is answered 401 on arrival and starts no read of the articles file
\* (the content of the file is handed out only by the read such a request
\* starts).
C13_ArticlesNeedLogin ==
  [][\A r \in Slots, s \in Sessions :
       (~sessions[s] /\ ListArrival(r, s))
       => /\ last' = Resp("list", 0, 401, <<>>)
          /\ UNCHANGED reqs]_vars

GatedArrival(r, s) ==
  \/ MutatingArrival(r, s)
  \/ ArriveList(r, s)
  \/ ArriveGetFond(r, s)

\* C15: a logout is answered with the redirect and leaves the session's flag
\* false, whether it was true or not, and touches no other session and no
\* file; a flag that is false becomes true only by a login with the admin
\* secret on that session; and while it is false every request of the session
\* at a gated route is answered 401 without starting a handler, and
\* check-session answers 401.
C15_LogoutDestroys ==
  [][/\ \A s \in Sessions :
          Logout(s)
          => /\ sessions' = [sessions EXCEPT ![s] = FALSE]
             /\ ~sessions[s] => sessions' = sessions
             /\ last' = Resp("logout", 0, 302, <<>>)
             /\ UNCHANGED <<articlesFile, fondFile, blobs, reqs>>
     /\ \A s \in Sessions :
          (~sessions[s] /\ sessions'[s]) => Login(s, ADMIN_PASSWORD)
     /\ \A r \in Slots, s \in Sessions :
          (~sessions[s] /\ GatedArrival(r, s))
          => (last'.status = 401 /\ UNCHANGED reqs)
     /\ \A s \in Sessions :
          (~sessions[s] /\ CheckSession(s)) => last'.status = 401]_vars

\* C15 witness: a session was authenticated (a mutation of its was
\* acknowledged), a logout has just been answered and no session is
\* authenticated any more.
C15_Witness ==
  /\ acked # <<>>
  /\ last = Resp("logout", 0, 302, <<>>)
  /\ \A s \in Sessions : ~sessions[s]
  /\ Quiescent

\* C16: check-session can be called by every session, authenticated or not;
\* it answers 200 when the caller's flag is true and 401 when it is not, and
\* changes no session flag, no file, no blob and no request in flight.
C16_CheckSessionIsPure ==
  /\ [](Accepts => \A s \in Sessions : ENABLED CheckSession(s))
  /\ [][\A s \in Sessions :
          CheckSession(s)
          => /\ last' = Resp("check-session", 0,
                             IF sessions[s] THEN 200 ELSE 401, <<>>)
             /\ UNCHANGED <<sessions, articlesFile, fondFile, blobs, reqs,
                            acked>>]_vars

\* C16 witness: check-session has answered 200 to the one session that is
\* authenticated, after a mutation was acknowledged; the file is the one that
\* mutation wrote.
C16_Witness ==
  /\ last = Resp("check-session", 0, 200, <<>>)
  /\ \E s \in Sessions : sessions[s]
  /\ \E s \in Sessions : ~sessions[s]
  /\ Len(acked) = 1
  /\ Quiescent

C18_SettingReadSucceeds ==
  [][/\ \A r \in Slots, s \in Sessions :
          (sessions[s] /\ ArriveGetFond(r, s))
          => (reqs'[r].pc = "read" /\ UNCHANGED <<last, fondFile>>)
     /\ \A r \in Slots :
          ReadGetFond(r)
          => /\ last'.op = "get-fond"
             /\ last'.status = 200
             /\ fondFile.kind = "valid" => last'.out = fondFile.recs
             /\ fondFile.kind # "valid"
                => last'.out = <<[background |-> [color |-> "#f2f2f2"]]>>
             /\ reqs'[r] = Idle
             /\ UNCHANGED fondFile]_vars

\* C18 witness: a read of a setting file that is not JSON has answered the
\* default, and the file is still not JSON.
C18_Witness ==
  /\ last = Resp("get-fond", 0, 200, <<[background |-> [color |-> "#f2f2f2"]]>>)
  /\ fondFile = CorruptFile

\* an upload of file f by session s arrives
UploadArrival(r, s, f) == ArriveUpload(r, s, f) \/ DataUpload(s, f)

\* C19: an upload by an authenticated session whose file declares a content
\* type other than image/jpeg, image/png, image/gif, or is larger than the
\* maximum, is answered with an error; no blob is kept, no write of the
\* setting file is started and the setting file is left as it is.
C19_UploadRejected ==
  [][\A r \in Slots, s \in Sessions, f \in UploadFiles :
       (/\ sessions[s]
        /\ f.present
        /\ f.mimetype \notin {"image/jpeg", "image/png", "image/gif"} \/ f.big
        /\ UploadArrival(r, s, f))
       => /\ last'.op = "upload"
          /\ last'.status >= 400
          /\ UNCHANGED <<blobs, fondFile, reqs>>]_vars

\* C20: the answer to a successful create carries the created record, with
\* the integer id it was given, and the articles file holds that record.
C20_CreateReturnsRecord ==
  [][\A r \in Slots :
       WriteCreate(r)
       => /\ last'.status = 201
          /\ last'.out = <<reqs[r].body>>
          /\ reqs[r].body.id \in Int
          /\ \E i \in 1..Len(articlesFile'.recs) :
               articlesFile'.recs[i] = last'.out[1]]_vars

\* C21: every session starts with its flag not set.  The flag of a session
\* becomes true only by a login with the admin secret on that session, and
\* false only by a logout of that session or by its expiry; a rejected login
\* on an authenticated session leaves it authenticated; an expired session
\* has no flag, and while a session has no flag its requests at the gated
\* routes are answered 401 without starting a handler.
C21_SessionLifecycle ==
  /\ \A s \in Sessions : ~sessions[s]
  /\ [][/\ \A s \in Sessions :
             (~sessions[s] /\ sessions'[s]) => Login(s, ADMIN_PASSWORD)
        /\ \A s \in Sessions :
             (sessions[s] /\ ~sessions'[s]) => (Logout(s) \/ Expire(s))
        /\ \A s \in Sessions, pw \in Passwords \ {ADMIN_PASSWORD} :
             (sessions[s] /\ Login(s, pw))
             => (sessions'[s] /\ last'.status \in {400, 401})
        /\ \A s \in Sessions : Expire(s) => ~sessions'[s]
        /\ \A r \in Slots, s \in Sessions :
             (~sessions[s] /\ GatedArrival(r, s))
             => (last'.status = 401 /\ UNCHANGED reqs)]_vars

\* C21 witness: three requests were served: a login, a create that was
\* acknowledged, and a gated request that has just been answered 401; no
\* logout was among them, so the session lost its flag by expiry.
C21_Witness ==
  /\ issued = 3
  /\ Len(acked) = 1
  /\ acked[1].op = "create"
  /\ \A s \in Sessions : ~sessions[s]
  /\ last.status = 401
  /\ last.op \in MutatingOps \cup {"list", "get-fond"}

\* C22: a login, a logout or the expiry of one session leaves the flag of
\* every other session as it was; the flag of a session changes only by a
\* login, a logout or the expiry of that session; and a request at a gated
\* route is answered 401 exactly when the flag of its own session is not
\* set, whatever the flags of the other sessions.
C22_SessionIsolation ==
  [][/\ \A s \in Sessions :
          ((\E pw \in Passwords : Login(s, pw)) \/ Logout(s) \/ Expire(s))
          => \A t \in Sessions \ {s} : sessions'[t] = sessions[t]
     /\ \A s \in Sessions :
          sessions'[s] # sessions[s]
          => (Login(s, ADMIN_PASSWORD) \/ Logout(s) \/ Expire(s))
     /\ \A r \in Slots, s \in Sessions :
          GatedArrival(r, s)
          => IF sessions[s]
             THEN reqs'[r].pc # "idle" \/ last'.status \in {400, 500}
             ELSE last'.status = 401 /\ UNCHANGED reqs]_vars

\* C22 witness: one session is authenticated and a request of its is in
\* flight; a gated request of the other session has just been answered 401.
C22_Witness ==
  /\ \E s \in Sessions : sessions[s]
  /\ \E s \in Sessions : ~sessions[s]
  /\ \E r \in Slots : reqs[r].pc # "idle"
  /\ last.status = 401
  /\ last.op \in MutatingOps \cup {"list", "get-fond"}

\* C23: when an upload is acknowledged, the setting file holds exactly the
\* document {background: url(<path>)} of the path the response returns, and
\* nothing else, so a read answers that document; an upload request of an
\* authenticated session that carries no file is answered 400, keeps no blob
\* and leaves the setting file as it is.
C23_UploadLinks ==
  [][/\ \A r \in Slots :
          WriteUpload(r)
          => /\ last'.op = "upload" /\ last'.status = 200
             /\ Len(last'.out) = 1
             /\ DOMAIN last'.out[1] = {"background"}
             /\ DOMAIN last'.out[1].background = {"url"}
             /\ fondFile' = ValidFile(last'.out)
             /\ FondOf(fondFile') = last'.out
     /\ \A s \in Sessions, f \in UploadFiles :
          (sessions[s] /\ f.present /\ DataUpload(s, f))
          => /\ last'.status = 200
             /\ fondFile' = ValidFile(last'.out)
     /\ \A r \in Slots, s \in Sessions :
          (sessions[s] /\ UploadArrival(r, s, NoFile))
          => /\ last' = Resp("upload", 0, 400, <<>>)
             /\ UNCHANGED <<fondFile, blobs, reqs>>]_vars

\* C24: an update or a delete that finds the articles file absent is answered
\* 404, whatever its id, and ends there; the file stays absent.
C24_AbsentFileNotFound ==
  [][\A r \in Slots :
       (/\ ReadUpdate(r) \/ ReadDelete(r)
        /\ articlesFile = AbsentFile)
       => /\ last'.status = 404
          /\ last'.id = reqs[r].id
          /\ reqs'[r] = Idle
          /\ articlesFile' = AbsentFile]_vars

\* C25: of the deletes of one id that was stored once, at most one is
\* answered with success, however the requests overlap: with no other
\* mutation acknowledged, no two acknowledged deletes carry the same id.
C25_OneDeleteSucceeds ==
  (\A i \in 1..Len(acked) : acked[i].op = "delete")
  => \A i, j \in 1..Len(acked) : i # j => acked[i].id # acked[j].id

\* C26: no request brings the server to a stop: whatever the backing files
\* hold, the process that answers the requests is running in every state (a
\* stopped server leaves the request that stopped it, and every later one,
\* without a response).
C26_ServerKeepsRunning == up = TRUE

\* the write of slot r lands on the file as the slot read it (no other write
\* landed in between, as in sequential execution)
Undisturbed(r) ==
  articlesFile.kind = "valid" /\ reqs[r].seen = articlesFile.recs

\* C27: a create, an update or a delete whose write lands on the list it
\* read keeps the order of the list: create leaves every record where it was
\* and puts the new one behind the last; update changes the record at the
\* position where the id was and moves nothing; delete leaves the remaining
\* records in the order they had.
C27_OrderPreserved ==
  [][\A r \in Slots :
       LET old == articlesFile.recs
           new == articlesFile'.recs
           id == reqs[r].id
       IN /\ (WriteCreate(r) /\ Undisturbed(r))
             => /\ Len(new) = Len(old) + 1
                /\ \A i \in 1..Len(old) : new[i] = old[i]
                /\ new[Len(new)] = reqs[r].body
          /\ (WriteUpdate(r) /\ Undisturbed(r))
             => /\ Len(new) = Len(old)
                /\ \A i \in 1..Len(old) :
                     IF RecId(old[i]) = id
                        /\ \A j \in 1..(i - 1) : RecId(old[j]) # id
                     THEN RecId(new[i]) = id
                     ELSE new[i] = old[i]
          /\ (WriteDelete(r) /\ Undisturbed(r))
             => new = SelectSeq(old, LAMBDA a : RecId(a) # id)]_vars

\* C27 witness: the record in the middle of three has been deleted; the
\* first and the third are left, in that order.
C27_Witness ==
  /\ last = Resp("delete", 0, 200, <<>>)
  /\ Len(acked) = 1
  /\ articlesFile = ValidFile(<<FirstRecord, ThirdRecord>>)

====
